---- MODULE Spec2Model ----
(***************************************************************************)
(* A model of the js-experiments repository.                               *)
(*                                                                         *)
(*   Spec      retrocausal-telegram.js (src/unnamed/part_001): the async   *)
(*             runExperiment, the Telegram server and the chat as its      *)
(*             environment.                                                *)
(*   SpecBench the timing helpers: bench of the try-catch experiment       *)
(*             (src/unnamed/part_006) and bench of v8-map-vs-object.       *)
(*   SpecNaN   NaN_Value of the IEEE 754 demo (src/unnamed/part_000).      *)
(*   SpecRet   the function pairs of v8-single-vs-multi-return/bench.js.   *)
(*   SpecEnt   entangledExperiment of wheeler-delayed-choice.              *)
(*   SpecMZ    MachZehnder.runPhoton and tryRetrocausalMessage.            *)
(*   SpecTC    the throw path and the return path of the try-catch         *)
(*             experiment (src/unnamed/part_006).                          *)
(*   SpecGen   the generator pipeline of v8-generators/bench.js.           *)
(*   LiveSpec  Spec with the fairness of the event loop and the server.    *)
(*                                                                         *)
(* Amplitudes are exact: a complex number is [re, im, k], standing for     *)
(* (re + i*im) * (1/sqrt 2)^k, and the phase is a number of quarter turns, *)
(* so that cos and sin are in {-1, 0, 1}.                                  *)
(***************************************************************************)
EXTENDS Integers, Sequences, FiniteSets, TLC

\* ------------------------------------------------------------------ bounds
\* chat messages the environment sends during one run
MaxMsgs == 2
\* the phase is drawn from 0..MaxQuarter quarter turns
MaxQuarter == 2
\* the chat writes before the run, and then until this many polls were issued
MaxSendAttempt == 1
\* responses with ok = false the server gives during one run
MaxFails == 1

\* ------------------------------------------------------- program constants
\* var maxAttempts = 40
maxAttempts == 40

\* process.env.TELEGRAM_CHAT_ID, when set
CHAT_ID == "7"
\* the chats that write to the bot: the experiment's chat and another one
ChatIds == {7, 8}
\* String(msg.chat.id)
String(n) == IF n = 7 THEN "7" ELSE IF n = 8 THEN "8" ELSE "?"

\* message texts the chat can send; "" is a message without text (a photo)
\* ("volna" and "chastitsa" stand for the Cyrillic words of the source)
Texts == {" Wave ", "volna", "PARTICLE", "chastitsa", "hello", ""}
\* msg.text.toLowerCase().trim() on the texts above
LowerTrim(t) ==
  CASE t = " Wave " -> "wave"
    [] t = "PARTICLE" -> "particle"
    [] OTHER -> t

VARIABLES
  envSet,        \* BOT_TOKEN and CHAT_ID are both set
  pc,            \* position of runExperiment
  exitStatus,    \* "running", "default" (the event loop drained), "exit1" (process.exit(1))
  phase, pathA, pathB, preimage, hash,
  sendResult, initUpdates, offset, choice, attempts, updates, i,
  probD0, probD1, detectorResult,
  inflight,      \* requests written to the socket and not yet answered
  resp,          \* the settled promise the script is awaiting
  queue,         \* the server's unconfirmed updates
  nextId,        \* the server's next update_id
  sent,          \* every sendMessage the script issued, in order
  commitSent, commitDelivered,   \* history: the commitment was issued / delivered
  choiceFrom,    \* history: the update that last set choice
  nInvalid,      \* history: unrecognised texts from CHAT_ID processed so far
  rejected,      \* history: an awaited call rejected
  fails,         \* history: responses with ok = false so far
  polls,         \* history: getUpdates requests issued by the poll loop
  firstValid     \* history: the first valid choice message processed

tgvars == <<envSet, pc, exitStatus, phase, pathA, pathB, preimage, hash,
            sendResult, initUpdates, offset, choice, attempts, updates, i,
            probD0, probD1, detectorResult, inflight, resp, queue, nextId,
            sent, commitSent, commitDelivered, choiceFrom,
            nInvalid, rejected, fails, polls, firstValid>>

VARIABLES
  helper,        \* which bench runs: "trycatch" or "mapobj"
  iterations, bpc, bi,
  clock,         \* performance.now() / process.hrtime.bigint()
  start, elapsed, times, median,
  timer,         \* history: "idle", "running" or "stopped"
  warmCalls,     \* history: calls of fn made by the warmup loop
  warmInWindow,  \* history: warmup calls made while the timer ran
  callsInWindow, \* history: calls of fn since the timer was last started
  windowCalls    \* history: the number of calls in each closed timer window

benchvars == <<helper, iterations, bpc, bi, clock, start, elapsed, times,
               median, timer, warmCalls, warmInWindow, callsInWindow,
               windowCalls>>

VARIABLES
  num,           \* the argument of new NaN_Value(num)
  buf,           \* the 8-byte buffer, as the set of its bits that are 1
  decoded, npc

nanvars == <<num, buf, decoded, npc>>

VARIABLES
  argX, argY,    \* the arguments x and y of a call of the function pairs
  multi, single, rpc

retvars == <<argX, argY, multi, single, rpc>>

VARIABLES
  nPhotons, ei, aliceBasisX, aliceBasisZ, bobWhenAliceX, bobWhenAliceZ,
  aliceSeq,      \* history: Alice's basis for each pair (TRUE: X)
  bobSeq         \* history: Bob's result for each pair

entvars == <<nPhotons, ei, aliceBasisX, aliceBasisZ, bobWhenAliceX,
             bobWhenAliceZ, aliceSeq, bobSeq>>

VARIABLES
  phaseShift,    \* this.phaseShift of the MachZehnder, in quarter turns
  mzpc,
  mzBs2,         \* the argument bs2Present of runPhoton
  mzP, d0Count, d1Count,
  pD0,           \* the probability the last runPhoton compared the draw with
  mzResult,      \* what the last runPhoton returned (-1: nothing yet)
  aliceChoices, bobRawResults, bobDecodedBits

mzvars == <<phaseShift, mzpc, mzBs2, mzP, d0Count, d1Count, pD0,
            mzResult, aliceChoices, bobRawResults, bobDecodedBits>>

VARIABLES
  tcN,           \* the argument n of testThrowPath and testReturnPath
  tcpc,
  tcThrown,      \* history: throwOnError threw
  tcCaught,      \* history: the catch block of testThrowPath ran
  throwRet,      \* what testThrowPath returned
  tcResult,      \* const result of testReturnPath
  returnRet      \* what testReturnPath returned

tcvars == <<tcN, tcpc, tcThrown, tcCaught, throwRet, tcResult, returnRet>>

VARIABLES
  gN,            \* the argument of range(n)
  gActive,       \* whose code runs: the consumer, filter, map or range
  gSignal,       \* how it was entered: "call" (next() was called on it or
                 \* it goes on), "value" (it was handed a value), "done"
  rangeI, rangeSt,
  mapV,          \* const v of map
  filterV,       \* const v of filter
  curV,          \* const v of the consumer's for-of
  gSum,
  nProduced,     \* history: values range has yielded
  nMapped,       \* history: applications of map's fn
  nTested,       \* history: applications of filter's fn
  nDropped,      \* history: values filter did not yield
  nConsumed      \* history: values the consumer has added to sum

genvars == <<gN, gActive, gSignal, rangeI, rangeSt, mapV, filterV, curV,
             gSum, nProduced, nMapped, nTested, nDropped, nConsumed>>

extvars == <<mzvars, tcvars, genvars>>

vars == <<tgvars, benchvars, nanvars, retvars, entvars, extvars>>

\* bench of v8-map-vs-object has not computed a median yet
NoMedian == <<0, 1>>

\* the parts of the repository a specification does not run
BenchIdle ==
  /\ helper = "none" /\ iterations = 0 /\ bpc = "idle" /\ bi = 0
  /\ clock = 0 /\ start = 0 /\ elapsed = 0 /\ times = <<>>
  /\ median = NoMedian
  /\ timer = "idle" /\ warmCalls = 0 /\ warmInWindow = 0
  /\ callsInWindow = 0 /\ windowCalls = <<>>

NanIdle == num = 0 /\ buf = {} /\ decoded = 0 /\ npc = "idle"

RetIdle == argX = 0 /\ argY = 0 /\ multi = <<>> /\ single = <<>> /\ rpc = "idle"

Counts(a, b) == [d0 |-> a, d1 |-> b]

EntIdle ==
  /\ nPhotons = 0 /\ ei = 0
  /\ aliceBasisX = Counts(0, 0) /\ aliceBasisZ = Counts(0, 0)
  /\ bobWhenAliceX = Counts(0, 0) /\ bobWhenAliceZ = Counts(0, 0)
  /\ aliceSeq = <<>> /\ bobSeq = <<>>

MzIdle ==
  /\ phaseShift = 0 /\ mzpc = "idle" /\ mzBs2 = FALSE /\ mzP = 0
  /\ d0Count = 0 /\ d1Count = 0 /\ pD0 = <<0, 0>> /\ mzResult = -1
  /\ aliceChoices = <<>> /\ bobRawResults = <<>> /\ bobDecodedBits = <<>>

\* no result yet of returnOnError
NoResult == [none |-> TRUE]

TcIdle ==
  /\ tcN = 0 /\ tcpc = "idle" /\ tcThrown = FALSE /\ tcCaught = FALSE
  /\ throwRet = 0 /\ tcResult = NoResult /\ returnRet = 0

GenIdle ==
  /\ gN = 0 /\ gActive = "idle" /\ gSignal = "call"
  /\ rangeI = 0 /\ rangeSt = "start" /\ mapV = 0 /\ filterV = 0 /\ curV = 0
  /\ gSum = 0 /\ nProduced = 0 /\ nMapped = 0 /\ nTested = 0
  /\ nDropped = 0 /\ nConsumed = 0

ExtIdle == MzIdle /\ TcIdle /\ GenIdle

Null == "null"
\* not computed yet: an amplitude, a probability
NoCx == [re |-> 0, im |-> 0, k |-> 0]
NoProb == <<0, 0>>
NoResp == [status |-> "none", result |-> <<>>]

\* ---------------------------------------------------------------- physics
Cx(re, im, k) == [re |-> re, im |-> im, k |-> k]

\* Beam splitter [[1, i], [i, 1]] / sqrt(2)
applyBS(inA, inB) ==
  [out0 |-> Cx(inA.re - inB.im, inA.im + inB.re, inA.k + 1),
   out1 |-> Cx(-inA.im + inB.re, inA.re + inB.im, inA.k + 1)]

Pow2(k) == IF k = 0 THEN 1 ELSE IF k = 1 THEN 2 ELSE IF k = 2 THEN 4 ELSE 8

\* |c|^2 as the exact fraction <<numerator, denominator>>
magnitudeSq(c) == <<c.re * c.re + c.im * c.im, Pow2(c.k)>>

\* fmtComplex prints only the real part when im is (nearly) zero, only the
\* imaginary part when re is, and both otherwise
fmtComplex(c) ==
  IF c.im = 0 THEN <<"re", c.re, c.k>>
  ELSE IF c.re = 0 THEN <<"im", c.im, c.k>>
  ELSE <<"re+im", c.re, c.im, c.k>>

\* Math.cos / Math.sin of q quarter turns
Cos(q) == CASE q % 4 = 0 -> 1 [] q % 4 = 2 -> -1 [] OTHER -> 0
Sin(q) == CASE q % 4 = 1 -> 1 [] q % 4 = 3 -> -1 [] OTHER -> 0

\* pathB after the phase shift
PhaseShift(p, q) ==
  Cx(p.re * Cos(q) - p.im * Sin(q), p.re * Sin(q) + p.im * Cos(q), p.k)

Preimage(ph, a, b) ==
  <<"WHEELER_DELAYED_CHOICE", ph, fmtComplex(a), fmtComplex(b),
    magnitudeSq(a), magnitudeSq(b)>>

\* crypto.createHash('sha256').update(preimage).digest('hex'): collision free
Sha256(pre) == <<"sha256", pre>>

\* Math.random() < p ? 'D0' : 'D1', Math.random() in [0, 1)
Detect(p) ==
  (IF p[1] > 0 THEN {"D0"} ELSE {}) \cup (IF p[1] < p[2] THEN {"D1"} ELSE {})

\* --------------------------------------------------------------- messages
CommitMsg(h) == [kind |-> "commit", hash |-> h]
PromptMsg == [kind |-> "prompt"]
TimeoutMsg == [kind |-> "timeout"]
ResultMsg(bs2, ph, p0, p1, det, pre, h) ==
  [kind |-> "result", bs2Present |-> bs2, phase |-> ph, probD0 |-> p0,
   probD1 |-> p1, detectorResult |-> det, preimage |-> pre, hash |-> h]

sendMessage(text) == [method |-> "sendMessage", text |-> text]
getUpdates(off) == [method |-> "getUpdates", offset |-> off]

Update(id, chat, text, era) ==
  [update_id |-> id, message |-> [chat |-> [id |-> chat], text |-> text],
   era |-> era]

\* no update yet
NoUpdate == Update(0, 0, "", "none")

Last(s) == s[Len(s)]

\* the requests of a kind issued so far
SentOf(kind) == SelectSeq(sent, LAMBDA m : m.kind = kind)

\* ------------------------------------------------------------ environment
\* the chat writes to the bot
UserSends ==
  /\ nextId <= MaxMsgs
  /\ attempts <= MaxSendAttempt
  /\ pc \notin {"done", "exited"}
  /\ \E c \in ChatIds, t \in Texts :
       /\ (c # 7 => t = " Wave ")
       /\ queue' = Append(queue,
            Update(nextId, c, t,
                   IF ~commitSent THEN "pre"
                   ELSE IF ~commitDelivered THEN "mid" ELSE "post"))
  /\ nextId' = nextId + 1
  /\ UNCHANGED <<envSet, pc, exitStatus, phase, pathA, pathB, preimage, hash,
                 sendResult, initUpdates, offset, choice, attempts, updates, i,
                 probD0, probD1, detectorResult, inflight, resp,
                 sent, commitSent, commitDelivered, choiceFrom,
                 nInvalid, rejected, fails, polls, firstValid>>
  /\ UNCHANGED <<benchvars, nanvars, retvars, entvars, extvars>>

\* the server answers the oldest outstanding request: res.on('end') parses
\* the body and resolves, or the parse / the socket fails and the promise
\* rejects. getUpdates(offset) confirms the updates below offset and returns
\* the rest.
Unconfirmed(off) == SelectSeq(queue, LAMBDA u : u.update_id >= off)

ServerRespond ==
  /\ inflight # <<>>
  /\ resp = NoResp
  /\ LET req == Head(inflight) IN
     \E st \in {"ok", "fail", "reject"} :
       /\ (st = "fail" => fails < MaxFails)
       /\ fails' = IF st = "fail" THEN fails + 1 ELSE fails
       /\ inflight' = Tail(inflight)
       /\ IF st = "ok" /\ req.method = "getUpdates"
          THEN /\ queue' = Unconfirmed(req.offset)
               /\ resp' = [status |-> "ok", result |-> Unconfirmed(req.offset)]
          ELSE /\ queue' = queue
               /\ resp' = [status |-> st, result |-> <<>>]
       /\ commitDelivered' =
            (commitDelivered \/
               (st = "ok" /\ req.method = "sendMessage" /\ req.text.kind = "commit"))
  /\ UNCHANGED <<envSet, pc, exitStatus, phase, pathA, pathB, preimage, hash,
                 sendResult, initUpdates, offset, choice, attempts, updates, i,
                 probD0, probD1, detectorResult, nextId,
                 sent, commitSent, choiceFrom,
                 nInvalid, rejected, polls, firstValid>>
  /\ UNCHANGED <<benchvars, nanvars, retvars, entvars, extvars>>

\* ------------------------------------------------------------- the script
\* if (!BOT_TOKEN || !CHAT_ID) { ...; process.exit(1); }
EnvCheck ==
  /\ pc = "env_check"
  /\ IF envSet
     THEN pc' = "create" /\ exitStatus' = exitStatus
     ELSE pc' = "exited" /\ exitStatus' = "exit1"
  /\ UNCHANGED <<envSet, phase, pathA, pathB, preimage, hash,
                 sendResult, initUpdates, offset, choice, attempts, updates, i,
                 probD0, probD1, detectorResult, inflight, resp, queue, nextId,
                 sent, commitSent, commitDelivered, choiceFrom,
                 nInvalid, rejected, fails, polls, firstValid>>
  /\ UNCHANGED <<benchvars, nanvars, retvars, entvars, extvars>>

\* Steps 1 and 2: the photon state, the preimage and its hash
CreateState ==
  /\ pc = "create"
  /\ \E q \in 0..MaxQuarter :
       LET afterBS1 == applyBS(Cx(1, 0, 0), Cx(0, 0, 0))
           a == afterBS1.out0
           b == PhaseShift(afterBS1.out1, q)
       IN /\ phase' = q
          /\ pathA' = a
          /\ pathB' = b
          /\ preimage' = Preimage(q, a, b)
          /\ hash' = Sha256(Preimage(q, a, b))
  /\ pc' = "send_commit"
  /\ UNCHANGED <<envSet, exitStatus,
                 sendResult, initUpdates, offset, choice, attempts, updates, i,
                 probD0, probD1, detectorResult, inflight, resp, queue, nextId,
                 sent, commitSent, commitDelivered, choiceFrom,
                 nInvalid, rejected, fails, polls, firstValid>>
  /\ UNCHANGED <<benchvars, nanvars, retvars, entvars, extvars>>

\* Step 3: var sendResult = await sendMessage(commitMsg)
SendCommit ==
  /\ pc = "send_commit"
  /\ inflight' = Append(inflight, sendMessage(CommitMsg(hash)))
  /\ sent' = Append(sent, CommitMsg(hash))
  /\ commitSent' = TRUE
  /\ pc' = "await_commit"
  /\ UNCHANGED <<envSet, exitStatus, phase, pathA, pathB, preimage, hash,
                 sendResult, initUpdates, offset, choice, attempts, updates, i,
                 probD0, probD1, detectorResult, resp, queue, nextId,
                 commitDelivered, choiceFrom,
                 nInvalid, rejected, fails, polls, firstValid>>
  /\ UNCHANGED <<benchvars, nanvars, retvars, entvars, extvars>>

\* if (!sendResult.ok) return;  var initUpdates = await getUpdates(0)
AfterCommit ==
  /\ pc = "await_commit"
  /\ resp.status \in {"ok", "fail"}
  /\ sendResult' = resp
  /\ resp' = NoResp
  /\ IF resp.status = "ok"
     THEN /\ inflight' = Append(inflight, getUpdates(0))
          /\ pc' = "await_init"
          /\ exitStatus' = exitStatus
     ELSE /\ inflight' = inflight
          /\ pc' = "done"
          /\ exitStatus' = "default"
  /\ UNCHANGED <<envSet, phase, pathA, pathB, preimage, hash,
                 initUpdates, offset, choice, attempts, updates, i,
                 probD0, probD1, detectorResult, queue, nextId,
                 sent, commitSent, commitDelivered, choiceFrom,
                 nInvalid, rejected, fails, polls, firstValid>>
  /\ UNCHANGED <<benchvars, nanvars, retvars, entvars, extvars>>

\* the initial offset, choice = null, attempts = 0. initUpdates.result is
\* read here and never again: the model keeps initUpdates.ok only.
AfterInit ==
  /\ pc = "await_init"
  /\ resp.status \in {"ok", "fail"}
  /\ initUpdates' = [status |-> resp.status, result |-> <<>>]
  /\ offset' = IF resp.status = "ok" /\ Len(resp.result) > 0
               THEN Last(resp.result).update_id + 1
               ELSE 0
  /\ choice' = Null
  /\ attempts' = 0
  /\ resp' = NoResp
  /\ pc' = "while_head"
  /\ UNCHANGED <<envSet, exitStatus, phase, pathA, pathB, preimage, hash,
                 sendResult, updates, i,
                 probD0, probD1, detectorResult, inflight, queue, nextId,
                 sent, commitSent, commitDelivered, choiceFrom,
                 nInvalid, rejected, fails, polls, firstValid>>
  /\ UNCHANGED <<benchvars, nanvars, retvars, entvars, extvars>>

\* (mutant) the loop condition off by one
LoopGuardOffByOne == choice = Null /\ attempts <= maxAttempts

\* choice === null && attempts < maxAttempts
LoopGuard == choice = Null /\ attempts < maxAttempts

\* while (choice === null && attempts < maxAttempts) { attempts++; await getUpdates(offset)
WhileHead ==
  /\ pc = "while_head"
  /\ IF LoopGuard
     THEN /\ attempts' = attempts + 1
          /\ inflight' = Append(inflight, getUpdates(offset))
          /\ polls' = polls + 1
          /\ pc' = "await_poll"
     ELSE /\ pc' = "after_loop"
          /\ UNCHANGED <<attempts, inflight, polls>>
  /\ UNCHANGED <<envSet, exitStatus, phase, pathA, pathB, preimage, hash,
                 sendResult, initUpdates, offset, choice, updates, i,
                 probD0, probD1, detectorResult, resp, queue, nextId,
                 sent, commitSent, commitDelivered, choiceFrom,
                 nInvalid, rejected, fails, firstValid>>
  /\ UNCHANGED <<benchvars, nanvars, retvars, entvars, extvars>>

\* (mutant) a poll that answered ok = false ends the loop
GiveUpAfterFailedPoll == "after_loop"

\* if (updates.ok) { ... } has no else: the while loop goes round again
AfterFailedPoll == "while_head"

\* var updates = await getUpdates(offset); if (updates.ok) { for (var i = 0; ...
AfterPoll ==
  /\ pc = "await_poll"
  /\ resp.status \in {"ok", "fail"}
  /\ updates' = resp
  /\ IF resp.status = "ok"
     THEN i' = 0 /\ pc' = "for_head"
     ELSE i' = i /\ pc' = AfterFailedPoll
  /\ resp' = NoResp
  /\ UNCHANGED <<envSet, exitStatus, phase, pathA, pathB, preimage, hash,
                 sendResult, initUpdates, offset, choice, attempts,
                 probD0, probD1, detectorResult, inflight, queue, nextId,
                 sent, commitSent, commitDelivered, choiceFrom,
                 nInvalid, rejected, fails, polls, firstValid>>
  /\ UNCHANGED <<benchvars, nanvars, retvars, entvars, extvars>>

\* msg && msg.chat && String(msg.chat.id) === CHAT_ID && msg.text
\* the chat id is not compared: a text from any chat is taken
ConsideredAnyChat(msg) == msg.text # ""

\* msg && msg.chat && String(msg.chat.id) === CHAT_ID && msg.text
Considered(msg) == String(msg.chat.id) = CHAT_ID /\ msg.text # ""

\* the choice a text stands for, Null when it is not recognised
ChoiceOf(text) ==
  IF text = "wave" \/ text = "volna" THEN "wave"
  ELSE IF text = "particle" \/ text = "chastitsa" THEN "particle"
  ELSE Null

\* (mutant) the re-prompt is sent without await
PromptNoAwait == "for_head"

\* await sendMessage(...): the loop is suspended until the re-prompt is answered
PromptAwait == "await_prompt"

\* one iteration of the for loop over updates.result (i counts from 0)
ForStep ==
  /\ pc = "for_head"
  /\ IF i < Len(updates.result)
     THEN LET update == updates.result[i + 1]
              msg == update.message
              text == LowerTrim(msg.text)
          IN /\ offset' = update.update_id + 1
             /\ i' = i + 1
             /\ IF Considered(msg) /\ ChoiceOf(text) # Null
                THEN /\ choice' = ChoiceOf(text)
                     /\ choiceFrom' = update
                     /\ firstValid' = IF firstValid = NoUpdate THEN update ELSE firstValid
                     /\ pc' = "for_head"
                     /\ UNCHANGED <<inflight, sent, nInvalid>>
                ELSE IF Considered(msg)
                THEN /\ inflight' = Append(inflight, sendMessage(PromptMsg))
                     /\ sent' = Append(sent, PromptMsg)
                     /\ nInvalid' = nInvalid + 1
                     /\ pc' = PromptAwait
                     /\ UNCHANGED <<choice, choiceFrom, firstValid>>
                ELSE /\ pc' = "for_head"
                     /\ UNCHANGED <<choice, choiceFrom, firstValid, inflight, sent, nInvalid>>
     ELSE /\ pc' = "while_head"
          /\ UNCHANGED <<offset, i, choice, choiceFrom, firstValid, inflight, sent, nInvalid>>
  /\ UNCHANGED <<envSet, exitStatus, phase, pathA, pathB, preimage, hash,
                 sendResult, initUpdates, attempts, updates,
                 probD0, probD1, detectorResult, resp, queue, nextId,
                 commitSent, commitDelivered, rejected, fails, polls>>
  /\ UNCHANGED <<benchvars, nanvars, retvars, entvars, extvars>>

\* await sendMessage('Отправь *wave* ...') returned: the loop goes on
AfterPrompt ==
  /\ pc = "await_prompt"
  /\ resp.status \in {"ok", "fail"}
  /\ resp' = NoResp
  /\ pc' = "for_head"
  /\ UNCHANGED <<envSet, exitStatus, phase, pathA, pathB, preimage, hash,
                 sendResult, initUpdates, offset, choice, attempts, updates, i,
                 probD0, probD1, detectorResult, inflight, queue, nextId,
                 sent, commitSent, commitDelivered, choiceFrom,
                 nInvalid, rejected, fails, polls, firstValid>>
  /\ UNCHANGED <<benchvars, nanvars, retvars, entvars, extvars>>

\* if (choice === null) { await sendMessage('Время вышло...'); return; }
AfterLoop ==
  /\ pc = "after_loop"
  /\ IF choice = Null
     THEN /\ inflight' = Append(inflight, sendMessage(TimeoutMsg))
          /\ sent' = Append(sent, TimeoutMsg)
          /\ pc' = "await_timeout"
     ELSE /\ pc' = "apply"
          /\ UNCHANGED <<inflight, sent>>
  /\ UNCHANGED <<envSet, exitStatus, phase, pathA, pathB, preimage, hash,
                 sendResult, initUpdates, offset, choice, attempts, updates, i,
                 probD0, probD1, detectorResult, resp, queue, nextId,
                 commitSent, commitDelivered, choiceFrom,
                 nInvalid, rejected, fails, polls, firstValid>>
  /\ UNCHANGED <<benchvars, nanvars, retvars, entvars, extvars>>

\* Step 5: apply the choice to the committed state
ApplyChoice ==
  /\ pc = "apply"
  /\ LET bs2Present == (choice = "wave")
         afterBS2 == applyBS(pathA, pathB)
         p0 == IF bs2Present THEN magnitudeSq(afterBS2.out0) ELSE magnitudeSq(pathA)
         p1 == IF bs2Present THEN magnitudeSq(afterBS2.out1) ELSE magnitudeSq(pathB)
     IN /\ probD0' = p0
        /\ probD1' = p1
        /\ \E d \in Detect(p0) : detectorResult' = d
  /\ pc' = "send_result"
  /\ UNCHANGED <<envSet, exitStatus, phase, pathA, pathB, preimage, hash,
                 sendResult, initUpdates, offset, choice, attempts, updates, i,
                 inflight, resp, queue, nextId,
                 sent, commitSent, commitDelivered, choiceFrom,
                 nInvalid, rejected, fails, polls, firstValid>>
  /\ UNCHANGED <<benchvars, nanvars, retvars, entvars, extvars>>

\* (mutant) the verification block is rebuilt from the amplitudes after BS2
RevealMsgRecomputed ==
  LET after == applyBS(pathA, pathB)
      pre == Preimage(phase, after.out0, after.out1)
  IN ResultMsg(choice = "wave", phase, probD0, probD1, detectorResult, pre, Sha256(pre))

\* Step 6: the result message with the verification block
RevealMsg ==
  ResultMsg(choice = "wave", phase, probD0, probD1, detectorResult, preimage, hash)

SendResult ==
  /\ pc = "send_result"
  /\ inflight' = Append(inflight, sendMessage(RevealMsg))
  /\ sent' = Append(sent, RevealMsg)
  /\ pc' = "await_result"
  /\ UNCHANGED <<envSet, exitStatus, phase, pathA, pathB, preimage, hash,
                 sendResult, initUpdates, offset, choice, attempts, updates, i,
                 probD0, probD1, detectorResult, resp, queue, nextId,
                 commitSent, commitDelivered, choiceFrom,
                 nInvalid, rejected, fails, polls, firstValid>>
  /\ UNCHANGED <<benchvars, nanvars, retvars, entvars, extvars>>

\* the last await of a path returned: runExperiment's promise resolves
Return ==
  /\ pc \in {"await_timeout", "await_result"}
  /\ resp.status \in {"ok", "fail"}
  /\ resp' = NoResp
  /\ pc' = "done"
  /\ exitStatus' = "default"
  /\ UNCHANGED <<envSet, phase, pathA, pathB, preimage, hash,
                 sendResult, initUpdates, offset, choice, attempts, updates, i,
                 probD0, probD1, detectorResult, inflight, queue, nextId,
                 sent, commitSent, commitDelivered, choiceFrom,
                 nInvalid, rejected, fails, polls, firstValid>>
  /\ UNCHANGED <<benchvars, nanvars, retvars, entvars, extvars>>

Awaiting ==
  pc \in {"await_commit", "await_init", "await_poll", "await_prompt",
          "await_timeout", "await_result"}

\* (mutant) the handler logs the error and does not call process.exit
CatchNoExit == "default"

\* runExperiment().catch(err => { console.error(...); process.exit(1); })
CatchExit == "exit1"

\* the error is swallowed inside the loop and polling goes on
CatchResumes == "while_head"

\* the rejection leaves runExperiment: nothing after the await runs
CatchStops == "exited"

Catch ==
  /\ Awaiting
  /\ resp.status = "reject"
  /\ resp' = NoResp
  /\ rejected' = TRUE
  /\ pc' = CatchStops
  /\ exitStatus' = CatchExit
  /\ UNCHANGED <<envSet, phase, pathA, pathB, preimage, hash,
                 sendResult, initUpdates, offset, choice, attempts, updates, i,
                 probD0, probD1, detectorResult, inflight, queue, nextId,
                 sent, commitSent, commitDelivered, choiceFrom,
                 nInvalid, fails, polls, firstValid>>
  /\ UNCHANGED <<benchvars, nanvars, retvars, entvars, extvars>>

TgState(entry) ==
  /\ pc = entry
  /\ exitStatus = "running"
  /\ phase = -1 /\ pathA = NoCx /\ pathB = NoCx
  /\ preimage = <<>> /\ hash = <<>>
  /\ sendResult = NoResp /\ initUpdates = NoResp
  /\ offset = 0 /\ choice = Null /\ attempts = 0
  /\ updates = NoResp /\ i = 0
  /\ probD0 = NoProb /\ probD1 = NoProb /\ detectorResult = Null
  /\ inflight = <<>> /\ resp = NoResp /\ queue = <<>> /\ nextId = 1
  /\ sent = <<>> /\ commitSent = FALSE /\ commitDelivered = FALSE
  /\ choiceFrom = NoUpdate
  /\ nInvalid = 0 /\ rejected = FALSE /\ fails = 0 /\ polls = 0
  /\ firstValid = NoUpdate

TgInit == envSet \in BOOLEAN /\ TgState("env_check")

\* the Telegram script is not run
TgIdle == envSet = FALSE /\ TgState("idle")

Init == TgInit /\ BenchIdle /\ NanIdle /\ RetIdle /\ EntIdle /\ ExtIdle

Next ==
  \/ UserSends
  \/ ServerRespond
  \/ EnvCheck
  \/ CreateState
  \/ SendCommit
  \/ AfterCommit
  \/ AfterInit
  \/ WhileHead
  \/ AfterPoll
  \/ ForStep
  \/ AfterPrompt
  \/ AfterLoop
  \/ ApplyChoice
  \/ SendResult
  \/ Return
  \/ Catch

Spec == Init /\ [][Next]_vars

\* the steps of the script, and those of the server answering it
ScriptStep ==
  \/ EnvCheck \/ CreateState \/ SendCommit \/ AfterCommit \/ AfterInit
  \/ WhileHead \/ AfterPoll \/ ForStep \/ AfterPrompt \/ AfterLoop
  \/ ApplyChoice \/ SendResult \/ Return \/ Catch

\* The event loop runs a continuation once its promise has settled, and every
\* API call is answered (or fails): the chat is under no obligation to write.
LiveSpec == Spec /\ WF_vars(ScriptStep) /\ WF_vars(ServerRespond)

Ended == pc \in {"done", "exited"}

\* ------------------------------------------------------------------ claims

\* C1: commit-then-reveal. Once the commitment is issued, the message sent
\* first is the commitment with hash = SHA-256(preimage), preimage being the
\* one built from phase, pathA and pathB; no getUpdates is issued before the
\* commitment was acknowledged ok; and a result message shows exactly that
\* preimage, that hash and that phase.
C1_CommitThenReveal ==
  /\ commitSent =>
       /\ sent[1] = CommitMsg(hash)
       /\ hash = Sha256(preimage)
       /\ preimage = Preimage(phase, pathA, pathB)
  /\ (polls > 0 \/ initUpdates # NoResp
        \/ \E k \in 1..Len(inflight) : inflight[k].method = "getUpdates") =>
       /\ commitSent
       /\ sendResult.status = "ok"
  /\ \A k \in 1..Len(sent) :
       sent[k].kind = "result" =>
         /\ k > 1
         /\ sendResult.status = "ok"
         /\ polls > 0
         /\ sent[k].hash = sent[1].hash
         /\ sent[k].preimage = preimage
         /\ Sha256(sent[k].preimage) = sent[1].hash
         /\ sent[k].phase = sent[k].preimage[2]

\* a run that has sent its result message and ended
C1_Witness ==
  /\ pc = "done"
  /\ Len(sent) > 1
  /\ Last(sent).kind = "result"

\* C2: delayed choice. The message that set choice was not written before
\* the commitment was sent.
C2_DelayedChoice == choice # Null => choiceFrom.era # "pre"

\* C3: the run ends; the loop issues at most maxAttempts polls; and a run
\* that got through the initial offset fetch without a choice and without a
\* rejected call sends the timeout message last, computes no detector result
\* and sends no result message.
C3_Bounded ==
  /\ polls <= maxAttempts
  /\ polls = attempts
  /\ (pc = "done" /\ initUpdates # NoResp /\ choice = Null /\ ~rejected) =>
       /\ Last(sent) = TimeoutMsg
       /\ Len(SentOf("timeout")) = 1
       /\ SentOf("result") = <<>>
       /\ detectorResult = Null
       /\ probD0 = NoProb

\* what is left to do, as a number every step lowers: the chat messages not
\* yet written, three steps for each update not yet past offset, four for
\* each poll not yet issued, and the steps left at the current position
StepsLeftAt ==
  LET waiting == IF inflight # <<>> THEN 1 ELSE 0 IN
  CASE pc = "env_check" -> 22
    [] pc = "create" -> 21
    [] pc = "send_commit" -> 20
    [] pc = "await_commit" -> 18 + waiting
    [] pc = "await_init" -> 16 + waiting
    [] pc = "await_poll" -> 14 + waiting
    [] pc = "await_prompt" -> 14 + waiting
    [] pc = "for_head" -> 13
    [] pc = "while_head" -> 12
    [] pc = "after_loop" -> 11
    [] pc = "apply" -> 10
    [] pc = "await_timeout" -> 9 + waiting
    [] pc = "send_result" -> 9
    [] pc = "await_result" -> 7 + waiting
    [] OTHER -> 0

Rank ==
  (MaxMsgs + 1 - nextId)
  + 3 * (MaxMsgs + 1 - (IF offset > 1 THEN offset ELSE 1))
  + 4 * (maxAttempts - polls)
  + StepsLeftAt

\* C3 (continued): until the run has ended a step of the script or of the
\* server is possible, and every step lowers Rank, which is never negative:
\* every run in which enabled steps are taken ends, after at most Rank steps.
C3_RunsOnceAndEnds ==
  /\ [](C3_Bounded /\ Rank >= 0 /\ (Ended \/ ENABLED (ScriptStep \/ ServerRespond)))
  /\ [][Rank' < Rank]_vars

\* C3 under fairness: the run ends.
C3_Ends == <>Ended

\* a run that polled maxAttempts times and ended on the timeout message
C3_Witness ==
  /\ pc = "done"
  /\ polls = maxAttempts
  /\ choice = Null
  /\ Last(sent) = TimeoutMsg

\* C4: at most one request is outstanding, and none is issued while a
\* response is still to be consumed.
C4_SingleOutstanding ==
  /\ Len(inflight) + (IF resp = NoResp THEN 0 ELSE 1) <= 1
  /\ inflight # <<>> => Awaiting

\* a re-prompt is outstanding, in the middle of a batch of two updates
C4_Witness ==
  /\ pc = "await_prompt"
  /\ Len(inflight) = 1
  /\ Len(updates.result) = 2
  /\ i = 1

\* the status of the getUpdates response before the poll now awaited
PrevGet == IF polls = 1 THEN initUpdates.status ELSE updates.status

\* no sendMessage is repeated: commitment, timeout and result are issued at
\* most once each, and one re-prompt per unrecognised message
NoSendRetry ==
  /\ Len(SentOf("commit")) <= 1
  /\ Len(SentOf("timeout")) <= 1
  /\ Len(SentOf("result")) <= 1
  /\ Len(SentOf("prompt")) = nInvalid
  /\ sendResult.status = "fail" => (sent = <<CommitMsg(hash)>> /\ inflight = <<>> /\ pc = "done")

\* C5 as stated: nothing is retried, so no poll is issued after a getUpdates
\* that answered ok = false.
C5_NoRetry ==
  /\ NoSendRetry
  /\ pc = "await_poll" => PrevGet # "fail"

\* C5 as amended: no sendMessage is retried, but getUpdates is: a response
\* with ok = false leaves offset as it was and the loop polls again, so that
\* only maxAttempts polls (or a choice) end the loop.
C5_RetriesGetUpdatesOnly ==
  /\ NoSendRetry
  /\ (choice = Null /\ (pc \in {"after_loop", "await_timeout"}
                          \/ (pc = "done" /\ Last(sent) = TimeoutMsg))) =>
       polls = maxAttempts
  /\ \A k \in 1..Len(inflight) :
       (inflight[k].method = "getUpdates" /\ pc = "await_poll") => inflight[k].offset = offset

\* a poll is awaited although the previous getUpdates answered ok = false
C5_Witness ==
  /\ pc = "await_poll"
  /\ PrevGet = "fail"
  /\ polls > 1

\* C6 as stated: the script never ends with a status its own code set.
C6_NoExplicitExit == exitStatus # "exit1"

\* C6 as amended: the script sets status 1 itself, with process.exit(1), when
\* an environment variable is missing and when an awaited call rejected (the
\* .catch handler); every other run ends with the default status, and none
\* ends through an uncaught exception.
C6_ExitDiscipline ==
  /\ exitStatus \in {"running", "default", "exit1"}
  /\ exitStatus = "running" <=> ~Ended
  /\ exitStatus = "exit1" <=> (pc = "exited" /\ (~envSet \/ rejected))
  /\ exitStatus = "default" <=> (pc = "done" /\ envSet /\ ~rejected)
  /\ rejected => pc = "exited"
  /\ (~envSet /\ pc # "env_check") => pc = "exited"

\* the poll loop's getUpdates rejected and the handler ended the process
C6_Witness ==
  /\ pc = "exited"
  /\ rejected
  /\ polls > 0
  /\ exitStatus = "exit1"

\* ---------------------------------------------------- the timing helpers

\* at most this many measured calls (iterations) of a bench
MaxIter == 3
\* the number of warmup calls the model makes (WARMUP is 1e5 in the source)
MaxWarmup == 2
\* fn() takes 0..MaxDur ticks of the clock
MaxDur == 1

WARMUP == MaxWarmup

\* Number(end - start) / 1e6: nanoseconds to milliseconds, as a fraction
Ms(ns) == <<ns, 1000000>>

\* (a, b) => a - b of times.sort, on fractions
TimeLess(a, b) == a[1] * b[2] < b[1] * a[2]

\* (iterations / elapsed * 1000).toFixed(0), before rounding, as a fraction
opsPerSec(n, e) == <<n * 1000, e>>

\* one call of the measured function: the clock advances by d
Call(d) ==
  /\ clock' = clock + d
  /\ callsInWindow' = IF timer = "running" THEN callsInWindow + 1
                                           ELSE callsInWindow

\* bench(name, fn, iterations) is called, in either experiment
BenchCall ==
  /\ bpc = "idle"
  /\ \E h \in {"trycatch", "mapobj"}, n \in 1..MaxIter :
       /\ helper' = h
       /\ iterations' = n
       /\ bpc' = IF h = "trycatch" THEN "warmup" ELSE "loop"
  /\ bi' = 0
  /\ UNCHANGED <<clock, start, elapsed, times, median, timer, warmCalls,
                 warmInWindow, callsInWindow, windowCalls>>
  /\ UNCHANGED <<tgvars, nanvars, retvars, entvars, extvars>>

\* try-catch bench: for (let i = 0; i < WARMUP; i++) fn(i)
TcWarm ==
  /\ helper = "trycatch" /\ bpc = "warmup"
  /\ bi < WARMUP
  /\ \E d \in 0..MaxDur : Call(d)
  /\ warmCalls' = warmCalls + 1
  /\ warmInWindow' = IF timer = "running" THEN warmInWindow + 1
                                          ELSE warmInWindow
  /\ bi' = bi + 1
  /\ UNCHANGED <<helper, iterations, bpc, start, elapsed, times, median,
                 timer, windowCalls>>
  /\ UNCHANGED <<tgvars, nanvars, retvars, entvars, extvars>>

\* try-catch bench: const start = performance.now()
TcStart ==
  /\ helper = "trycatch" /\ bpc = "warmup"
  /\ ~(bi < WARMUP)
  /\ start' = clock
  /\ timer' = "running"
  /\ callsInWindow' = 0
  /\ bi' = 0
  /\ bpc' = "measure"
  /\ UNCHANGED <<helper, iterations, clock, elapsed, times, median,
                 warmCalls, warmInWindow, windowCalls>>
  /\ UNCHANGED <<tgvars, nanvars, retvars, entvars, extvars>>

\* the measured loop runs one call too many
MeasureGuardInclusive == bi <= iterations

\* try-catch bench: i < iterations of the measured loop
MeasureGuard == bi < iterations

\* try-catch bench: for (let i = 0; i < iterations; i++) fn(i)
TcCall ==
  /\ helper = "trycatch" /\ bpc = "measure"
  /\ MeasureGuard
  /\ \E d \in 0..MaxDur : Call(d)
  /\ bi' = bi + 1
  /\ UNCHANGED <<helper, iterations, bpc, start, elapsed, times, median,
                 timer, warmCalls, warmInWindow, windowCalls>>
  /\ UNCHANGED <<tgvars, nanvars, retvars, entvars, extvars>>

\* try-catch bench: const elapsed = performance.now() - start; return
TcStop ==
  /\ helper = "trycatch" /\ bpc = "measure"
  /\ ~MeasureGuard
  /\ elapsed' = clock - start
  /\ timer' = "stopped"
  /\ windowCalls' = Append(windowCalls, callsInWindow)
  /\ bpc' = "done"
  /\ UNCHANGED <<helper, iterations, bi, clock, start, times, median,
                 warmCalls, warmInWindow, callsInWindow>>
  /\ UNCHANGED <<tgvars, nanvars, retvars, entvars, extvars>>

\* map bench: const start = process.hrtime.bigint() of one iteration
MapStart ==
  /\ helper = "mapobj" /\ bpc = "loop"
  /\ bi < iterations
  /\ start' = clock
  /\ timer' = "running"
  /\ callsInWindow' = 0
  /\ bpc' = "call"
  /\ UNCHANGED <<helper, iterations, bi, clock, elapsed, times, median,
                 warmCalls, warmInWindow, windowCalls>>
  /\ UNCHANGED <<tgvars, nanvars, retvars, entvars, extvars>>

\* map bench: fn()
MapCall ==
  /\ helper = "mapobj" /\ bpc = "call"
  /\ \E d \in 0..MaxDur : Call(d)
  /\ bpc' = "end"
  /\ UNCHANGED <<helper, iterations, bi, start, elapsed, times, median,
                 timer, warmCalls, warmInWindow, windowCalls>>
  /\ UNCHANGED <<tgvars, nanvars, retvars, entvars, extvars>>

\* map bench: const end = ...; times.push(Number(end - start) / 1e6); i++
MapStop ==
  /\ helper = "mapobj" /\ bpc = "end"
  /\ times' = Append(times, Ms(clock - start))
  /\ timer' = "stopped"
  /\ windowCalls' = Append(windowCalls, callsInWindow)
  /\ bi' = bi + 1
  /\ bpc' = "loop"
  /\ UNCHANGED <<helper, iterations, clock, start, elapsed, median,
                 warmCalls, warmInWindow, callsInWindow>>
  /\ UNCHANGED <<tgvars, nanvars, retvars, entvars, extvars>>

\* times[Math.floor(times.length / 2)], with the indices of Sequences
MedianOf(ts) == ts[(Len(ts) \div 2) + 1]

\* map bench: times.sort((a, b) => a - b); the median; return
MapSort ==
  /\ helper = "mapobj" /\ bpc = "loop"
  /\ ~(bi < iterations)
  /\ times' = SortSeq(times, TimeLess)
  /\ median' = MedianOf(times')
  /\ bpc' = "done"
  /\ UNCHANGED <<helper, iterations, bi, clock, start, elapsed, timer,
                 warmCalls, warmInWindow, callsInWindow, windowCalls>>
  /\ UNCHANGED <<tgvars, nanvars, retvars, entvars, extvars>>

InitBench == TgIdle /\ BenchIdle /\ NanIdle /\ RetIdle /\ EntIdle /\ ExtIdle

NextBench ==
  \/ BenchCall
  \/ TcWarm
  \/ TcStart
  \/ TcCall
  \/ TcStop
  \/ MapStart
  \/ MapCall
  \/ MapStop
  \/ MapSort

SpecBench == InitBench /\ [][NextBench]_vars

MaxBit == 21

\* the bits of the 8-byte buffer, 0 the least significant
Bit == 0..63

RECURSIVE TwoTo(_)
TwoTo(k) == IF k = 0 THEN 1 ELSE 2 * TwoTo(k - 1)

\* BigInt(num), for 0 <= num < 2^31, as the set of its bits that are 1
BigInt(n) == {b \in 0..30 : (n \div TwoTo(b)) % 2 = 1}

RECURSIVE Number(_)
\* Number(bits), for a value below 2^31
Number(bits) ==
  IF bits = {} THEN 0
  ELSE LET b == CHOOSE c \in bits : TRUE
       IN TwoTo(b) + Number(bits \ {b})

\* the bit pattern of NaN: exponent 62..52 all ones and the quiet bit 51;
\* the sign bit 63 is whatever the engine writes
NaNBits(sign) == (52..62) \cup {51} \cup (IF sign THEN {63} ELSE {})

\* the literal 0x0007FFFFn of decode(): bits 0..18
DecodeMask == BigInt(524287)

\* the values the demo boxes, and the powers of two around every bit
NanInputs ==
  {0, 2, 5, 555, 1242010}
    \cup {TwoTo(k) : k \in 0..MaxBit}
    \cup {TwoTo(k) - 1 : k \in 0..MaxBit}

\* new NaN_Value(num): this.buf = new ArrayBuffer(8), all zero
NanNew ==
  /\ npc = "idle"
  /\ \E n \in NanInputs : num' = n
  /\ buf' = {}
  /\ npc' = "new"
  /\ UNCHANGED decoded
  /\ UNCHANGED <<tgvars, benchvars, retvars, entvars, extvars>>

\* this.float64[0] = NaN
NanWriteNaN ==
  /\ npc = "new"
  /\ \E sign \in BOOLEAN : buf' = NaNBits(sign)
  /\ npc' = "zero"
  /\ UNCHANGED <<num, decoded>>
  /\ UNCHANGED <<tgvars, benchvars, retvars, entvars, extvars>>

\* this.int64[0] |= BigInt(num)
NanOr ==
  /\ npc = "zero"
  /\ buf' = buf \cup BigInt(num)
  /\ npc' = "boxed"
  /\ UNCHANGED <<num, decoded>>
  /\ UNCHANGED <<tgvars, benchvars, retvars, entvars, extvars>>

\* decode(): Number(this.int64[0] & 0x0007FFFFn)
NanDecode ==
  /\ npc = "boxed"
  /\ decoded' = Number(buf \cap DecodeMask)
  /\ npc' = "decoded"
  /\ UNCHANGED <<num, buf>>
  /\ UNCHANGED <<tgvars, benchvars, retvars, entvars, extvars>>

InitNaN == TgIdle /\ BenchIdle /\ NanIdle /\ RetIdle /\ EntIdle /\ ExtIdle

NextNaN ==
  \/ NanNew
  \/ NanWriteNaN
  \/ NanOr
  \/ NanDecode

SpecNaN == InitNaN /\ [][NextNaN]_vars

\* C8: NaN boxing round trip. For every integer n with 0 <= n < 2^51 (here:
\* every input, all below 2^31), new NaN_Value(n).decode() returns n.
C8_RoundTrip == npc = "decoded" => decoded = num

\* ------------------------------------- single return and multiple returns

\* the arguments include every integer in -MaxXY..MaxXY
MaxXY == 2

\* arguments on both sides of every threshold the functions compare with
RetEdges == {9, 10, 49, 50, 99, 100, 500, 501, 700, 800, 1000, 1001}

RetInputs == (-MaxXY..MaxXY) \cup RetEdges

RECURSIVE FirstReturn(_)
\* A body of `if (guard) return value;` statements, in program order: the
\* function returns at the first statement whose guard holds.
FirstReturn(stmts) ==
  IF Head(stmts)[1] THEN Head(stmts)[2] ELSE FirstReturn(Tail(stmts))

classifyMulti(x, y) ==
  LET val == x * y
  IN FirstReturn(<< <<val < 100, "small">>,
                    <<val < 1000, "medium">>,
                    <<val < 5000, "large">>,
                    <<TRUE, "huge">> >>)

\* classifySingle with the else keywords dropped: every if is tried
classifySingleNoElse(x, y) ==
  LET val == x * y
      r1 == IF val < 100 THEN "small" ELSE "undefined"
      r2 == IF val < 1000 THEN "medium" ELSE r1
  IN IF val < 5000 THEN "large" ELSE "huge"

classifySingle(x, y) ==
  LET val == x * y
  IN IF val < 100 THEN "small"
     ELSE IF val < 1000 THEN "medium"
     ELSE IF val < 5000 THEN "large"
     ELSE "huge"

\* (-0 and 0 are one integer here: both functions evaluate the same
\* expression in the branch that can yield -0)
computeMulti(x, y) ==
  FirstReturn(<< <<x = 0, 0>>,
                 <<y = 0, 0>>,
                 <<x < 0, -((-x) * y + x)>>,
                 <<TRUE, x * y + x>> >>)

computeSingle(x, y) ==
  IF x = 0 THEN 0
  ELSE IF y = 0 THEN 0
  ELSE IF x < 0 THEN -((-x) * y + x)
  ELSE x * y + x

validateMulti(x, y) ==
  FirstReturn(<< <<x < 0, FALSE>>,
                 <<x > 1000, FALSE>>,
                 <<y < 0, FALSE>>,
                 <<y > 1000, FALSE>>,
                 <<x + y > 1500, FALSE>>,
                 <<x * y > 500000, FALSE>>,
                 <<TRUE, TRUE>> >>)

validateSingle(x, y) ==
  LET valid == TRUE
  IN IF x < 0 THEN FALSE
     ELSE IF x > 1000 THEN FALSE
     ELSE IF y < 0 THEN FALSE
     ELSE IF y > 1000 THEN FALSE
     ELSE IF x + y > 1500 THEN FALSE
     ELSE IF x * y > 500000 THEN FALSE
     ELSE valid

\* the returns of the nested blocks, each under the guard of its block
processMulti(x, y) ==
  LET sum == x + y
  IN FirstReturn(<< <<sum < 10 /\ x > y, sum * 2>>,
                    <<sum < 10, sum * 3>>,
                    <<sum < 100 /\ x > y, sum + x>>,
                    <<sum < 100, sum + y>>,
                    <<x > y, sum - x>>,
                    <<TRUE, sum - y>> >>)

processSingle(x, y) ==
  LET sum == x + y
  IN IF sum < 10
       THEN (IF x > y THEN sum * 2 ELSE sum * 3)
       ELSE IF sum < 100
         THEN (IF x > y THEN sum + x ELSE sum + y)
         ELSE (IF x > y THEN sum - x ELSE sum - y)

\* the benchmark picks the arguments of a call
RetCall ==
  /\ rpc = "idle"
  /\ \E a \in RetInputs, b \in RetInputs : argX' = a /\ argY' = b
  /\ rpc' = "called"
  /\ UNCHANGED <<multi, single>>
  /\ UNCHANGED <<tgvars, benchvars, nanvars, entvars, extvars>>

\* the four multi-return functions are applied
RunMulti ==
  /\ rpc = "called"
  /\ multi' = <<classifyMulti(argX, argY), computeMulti(argX, argY),
                validateMulti(argX, argY), processMulti(argX, argY)>>
  /\ rpc' = "multi"
  /\ UNCHANGED <<argX, argY, single>>
  /\ UNCHANGED <<tgvars, benchvars, nanvars, entvars, extvars>>

\* the four single-return functions are applied to the same arguments
RunSingle ==
  /\ rpc = "multi"
  /\ single' = <<classifySingle(argX, argY), computeSingle(argX, argY),
                 validateSingle(argX, argY), processSingle(argX, argY)>>
  /\ rpc' = "done"
  /\ UNCHANGED <<argX, argY, multi>>
  /\ UNCHANGED <<tgvars, benchvars, nanvars, entvars, extvars>>

InitRet == TgIdle /\ BenchIdle /\ NanIdle /\ RetIdle /\ EntIdle /\ ExtIdle

NextRet ==
  \/ RetCall
  \/ RunMulti
  \/ RunSingle

SpecRet == InitRet /\ [][NextRet]_vars

\* C9: each single-return / multi-return pair has identical logic: applied
\* to the same x and y, classify, compute, validate and process return the
\* same value in their Multi and their Single form.
C9_PairsAgree ==
  rpc = "done" =>
    /\ multi = single
    /\ \A k \in 1..4 : multi[k] = single[k]

\* both forms were applied to arguments taking the last return of classify
\* and of validate: the product is huge and the pair is valid
C9_Witness ==
  /\ rpc = "done"
  /\ multi[1] = "huge" /\ single[1] = "huge"
  /\ multi[3] = TRUE /\ single[3] = TRUE

\* ---------------------------------------------------- entangledExperiment

\* at most this many photon pairs in a run
MaxPhotons == 3

\* Math.random() < 0.5 ? 0 : 1, r telling whether the draw was below 0.5
Bit01(r) == IF r THEN 0 ELSE 1

\* counter[result === 0 ? "d0" : "d1"]++
Incr(counter, result) ==
  IF result = 0 THEN [counter EXCEPT !.d0 = @ + 1]
                ELSE [counter EXCEPT !.d1 = @ + 1]

\* Bob's result in the X branch follows Alice's result and the shared bit
MeasureCorrelated(sharedBit, aliceUsesX, rA, rB) ==
  IF aliceUsesX
    THEN [alice |-> Bit01(rA), bob |-> Bit01(rA) * sharedBit]
    ELSE [alice |-> sharedBit, bob |-> sharedBit]

\* The results of one pair. rA and rB are the two draws of the X branch (the
\* Z branch draws nothing more and ignores them).
Measure(sharedBit, aliceUsesX, rA, rB) ==
  IF aliceUsesX
    THEN [alice |-> Bit01(rA), bob |-> Bit01(rB)]
    ELSE [alice |-> sharedBit, bob |-> sharedBit]

\* entangledExperiment(nPhotons) is called
EntCall ==
  /\ nPhotons = 0
  /\ \E n \in 1..MaxPhotons : nPhotons' = n
  /\ UNCHANGED <<ei, aliceBasisX, aliceBasisZ, bobWhenAliceX, bobWhenAliceZ,
                 aliceSeq, bobSeq>>
  /\ UNCHANGED <<tgvars, benchvars, nanvars, retvars, extvars>>

\* one iteration of the loop over the pairs
EntPair ==
  /\ nPhotons > 0
  /\ ei < nPhotons
  /\ \E rS \in BOOLEAN, aliceUsesX \in BOOLEAN, rA \in BOOLEAN,
        rB \in BOOLEAN :
       LET sharedBit == Bit01(rS)
           m == Measure(sharedBit, aliceUsesX, rA, rB)
       IN /\ IF aliceUsesX
               THEN /\ aliceBasisX' = Incr(aliceBasisX, m.alice)
                    /\ bobWhenAliceX' = Incr(bobWhenAliceX, m.bob)
                    /\ UNCHANGED <<aliceBasisZ, bobWhenAliceZ>>
               ELSE /\ aliceBasisZ' = Incr(aliceBasisZ, m.alice)
                    /\ bobWhenAliceZ' = Incr(bobWhenAliceZ, m.bob)
                    /\ UNCHANGED <<aliceBasisX, bobWhenAliceX>>
          /\ aliceSeq' = Append(aliceSeq, aliceUsesX)
          /\ bobSeq' = Append(bobSeq, m.bob)
  /\ ei' = ei + 1
  /\ UNCHANGED nPhotons
  /\ UNCHANGED <<tgvars, benchvars, nanvars, retvars, extvars>>

InitEnt == TgIdle /\ BenchIdle /\ NanIdle /\ RetIdle /\ EntIdle /\ ExtIdle

NextEnt ==
  \/ EntCall
  \/ EntPair

SpecEnt == InitEnt /\ [][NextEnt]_vars

\* the draws behind one pair, all fair and independent: equally weighted
Draws == [rS : BOOLEAN, rA : BOOLEAN, rB : BOOLEAN]

\* the number of draws that give Bob the result b when Alice's basis is given
BobWays(aliceUsesX, b) ==
  Cardinality({d \in Draws :
                 Measure(Bit01(d.rS), aliceUsesX, d.rA, d.rB).bob = b})

RECURSIVE SeqWays(_, _)
\* the weight of a whole sequence of Bob's results under basis choices bases
SeqWays(bases, results) ==
  IF results = <<>> THEN 1
  ELSE BobWays(Head(bases), Head(results))
         * SeqWays(Tail(bases), Tail(results))

\* C10: no-signaling. Whatever Bob has observed so far, each of his results
\* (0 or 1) comes with the same weight, one half, under either basis of
\* Alice, so every other sequence of basis choices of Alice gives Bob's
\* sequence of results exactly the weight it has under the choices she made:
\* the two runs are indistinguishable from Bob's results.
C10_NoSignaling ==
  /\ \A k \in 1..Len(bobSeq) : \A basis \in BOOLEAN :
       /\ BobWays(basis, bobSeq[k]) = BobWays(aliceSeq[k], bobSeq[k])
       /\ 2 * BobWays(basis, bobSeq[k]) = Cardinality(Draws)
  /\ \A other \in [1..Len(bobSeq) -> BOOLEAN] :
       SeqWays(other, bobSeq) = SeqWays(aliceSeq, bobSeq)
  /\ Len(aliceSeq) = ei /\ Len(bobSeq) = ei
  /\ bobWhenAliceX.d0 + bobWhenAliceX.d1 + bobWhenAliceZ.d0 + bobWhenAliceZ.d1
       = ei

\* a run in which Alice used both bases and Bob saw both results
C10_Witness ==
  /\ ei = nPhotons /\ ei >= 2
  /\ \E j \in 1..Len(aliceSeq), k \in 1..Len(aliceSeq) :
       /\ aliceSeq[j] /\ ~aliceSeq[k]
       /\ bobSeq[j] = 0 /\ bobSeq[k] = 1

\* ------------------------------------------------- MachZehnder.runPhoton

\* the bits of the message the model follows
MaxMzBits == 2
\* the photons Bob collects per bit (photonsPerBit is 100 in the source)
MaxClicks == 4

photonsPerBit == MaxClicks

\* MachZehnder.applyBS: out0 = (inA + i*inB) / sqrt 2,
\* out1 = (i*inA + inB) / sqrt 2
MachZehnder_applyBS(inA, inB) ==
  [out0 |-> [re |-> inA.re - inB.im, im |-> inA.im + inB.re, k |-> inA.k + 1],
   out1 |-> [re |-> -inA.im + inB.re, im |-> inA.re + inB.im,
             k |-> inA.k + 1]]

\* re ** 2 + im ** 2 of an amplitude, as the exact fraction
NormSq(c) == <<c.re * c.re + c.im * c.im, Pow2(c.k)>>

\* The probability runPhoton compares Math.random() with: pD0 when BS2 is
\* present, pA when it is absent.
runPhotonProb(shift, present) ==
  LET inA == [re |-> 1, im |-> 0, k |-> 0]
      inB == [re |-> 0, im |-> 0, k |-> 0]
      after_bs1 == MachZehnder_applyBS(inA, inB)
      path_a == after_bs1.out0
      path_b0 == after_bs1.out1
      cos_p == Cos(shift)
      sin_p == Sin(shift)
      path_b == [re |-> path_b0.re * cos_p - path_b0.im * sin_p,
                im |-> path_b0.re * sin_p + path_b0.im * cos_p,
                k |-> path_b0.k]
  IN IF present
       THEN NormSq(MachZehnder_applyBS(path_a, path_b).out0)
       ELSE NormSq(path_a)

\* Math.random() < p ? 0 : 1 with Math.random() in [0, 1): the detectors
\* that can click
Clicks(p) ==
  (IF p[1] > 0 THEN {0} ELSE {}) \cup (IF p[1] < p[2] THEN {1} ELSE {})

\* var mz = new MachZehnder(): this.phaseShift = 0
MzNew ==
  /\ mzpc = "idle"
  /\ phaseShift' = 0
  /\ mzpc' = "bit"
  /\ UNCHANGED <<mzBs2, mzP, d0Count, d1Count, pD0, mzResult, aliceChoices,
                 bobRawResults, bobDecodedBits>>
  /\ UNCHANGED <<tgvars, benchvars, nanvars, retvars, entvars, tcvars,
                 genvars>>

\* the next bit of the message: bs2Present = bit === 1, counters reset
MzBit ==
  /\ mzpc = "bit"
  /\ Len(aliceChoices) < MaxMzBits
  /\ \E bit \in {0, 1} :
       /\ mzBs2' = (bit = 1)
       /\ aliceChoices' = Append(aliceChoices, bit = 1)
  /\ d0Count' = 0 /\ d1Count' = 0 /\ mzP' = 0
  /\ mzpc' = "photons"
  /\ UNCHANGED <<phaseShift, pD0, mzResult, bobRawResults, bobDecodedBits>>
  /\ UNCHANGED <<tgvars, benchvars, nanvars, retvars, entvars, tcvars,
                 genvars>>

\* var result = mz.runPhoton(bs2Present); the click is counted
MzPhoton ==
  /\ mzpc = "photons"
  /\ mzP < photonsPerBit
  /\ pD0' = runPhotonProb(phaseShift, mzBs2)
  /\ \E result \in Clicks(pD0') :
       /\ mzResult' = result
       /\ IF result = 0
            THEN d0Count' = d0Count + 1 /\ UNCHANGED d1Count
            ELSE d1Count' = d1Count + 1 /\ UNCHANGED d0Count
  /\ mzP' = mzP + 1
  /\ UNCHANGED <<phaseShift, mzpc, mzBs2, aliceChoices, bobRawResults,
                 bobDecodedBits>>
  /\ UNCHANGED <<tgvars, benchvars, nanvars, retvars, entvars, tcvars,
                 genvars>>

\* the clicks of the bit are recorded and Bob guesses:
\* d0Fraction < 0.25 ? 1 : 0
MzDecode ==
  /\ mzpc = "photons"
  /\ ~(mzP < photonsPerBit)
  /\ bobRawResults' = Append(bobRawResults, Counts(d0Count, d1Count))
  /\ bobDecodedBits' =
       Append(bobDecodedBits, IF 4 * d0Count < photonsPerBit THEN 1 ELSE 0)
  /\ mzpc' = "bit"
  /\ UNCHANGED <<phaseShift, mzBs2, mzP, d0Count, d1Count, pD0, mzResult,
                 aliceChoices>>
  /\ UNCHANGED <<tgvars, benchvars, nanvars, retvars, entvars, tcvars,
                 genvars>>

InitMZ == TgIdle /\ BenchIdle /\ NanIdle /\ RetIdle /\ EntIdle /\ ExtIdle

NextMZ ==
  \/ MzNew
  \/ MzBit
  \/ MzPhoton
  \/ MzDecode

SpecMZ == InitMZ /\ [][NextMZ]_vars

\* C11: Mach-Zehnder statistics with phaseShift = 0. With BS2 present every
\* photon is returned as detector 0 and never as detector 1; with BS2 absent
\* the draw is compared with 1/2, so that either detector can click.
C11_Statistics ==
  (mzpc = "photons" /\ mzP > 0 /\ phaseShift = 0) =>
    IF mzBs2
      THEN mzResult = 0 /\ d1Count = 0
      ELSE 2 * pD0[1] = pD0[2] /\ Clicks(pD0) = {0, 1}

\* ------------------------------------ throwing and returning an error

\* bench calls the functions with every n in 0..MaxTcN
MaxTcN == 20

\* arguments around the multiples of 100
TcEdges == {99, 100, 101, 199, 200}

TcInputs == (0..MaxTcN) \cup TcEdges

\* -(n % 100), for n >= 0 (the -0 of JavaScript is the integer 0: it is not
\* below 0 either)
NegMod(n) == -(n % 100)

\* throwOnError(n): the Error thrown, or the value returned
throwOnError(n) ==
  IF n < 0 THEN [thrown |-> TRUE, value |-> 0]
           ELSE [thrown |-> FALSE, value |-> n * 2]

\* returnOnError(n)
returnOnError(n) ==
  IF n < 0 THEN [error |-> "negative"] ELSE [value |-> n * 2]

\* bench calls fn(i)
TcPick ==
  /\ tcpc = "idle"
  /\ \E n \in TcInputs : tcN' = n
  /\ tcpc' = "try"
  /\ UNCHANGED <<tcThrown, tcCaught, throwRet, tcResult, returnRet>>
  /\ UNCHANGED <<tgvars, benchvars, nanvars, retvars, entvars, mzvars,
                 genvars>>

\* testThrowPath: try { return throwOnError(-(n % 100)); }
ThrowTry ==
  /\ tcpc = "try"
  /\ LET r == throwOnError(NegMod(tcN))
     IN IF r.thrown
          THEN /\ tcThrown' = TRUE
               /\ tcpc' = "catch"
               /\ UNCHANGED throwRet
          ELSE /\ throwRet' = r.value
               /\ tcpc' = "returnPath"
               /\ UNCHANGED tcThrown
  /\ UNCHANGED <<tcN, tcCaught, tcResult, returnRet>>
  /\ UNCHANGED <<tgvars, benchvars, nanvars, retvars, entvars, mzvars,
                 genvars>>

\* testThrowPath: catch (e) { return -1; }
ThrowCatch ==
  /\ tcpc = "catch"
  /\ tcCaught' = TRUE
  /\ throwRet' = -1
  /\ tcpc' = "returnPath"
  /\ UNCHANGED <<tcN, tcThrown, tcResult, returnRet>>
  /\ UNCHANGED <<tgvars, benchvars, nanvars, retvars, entvars, mzvars,
                 genvars>>

\* testReturnPath: const result = returnOnError(-(n % 100))
ReturnCall ==
  /\ tcpc = "returnPath"
  /\ tcResult' = returnOnError(NegMod(tcN))
  /\ tcpc' = "check"
  /\ UNCHANGED <<tcN, tcThrown, tcCaught, throwRet, returnRet>>
  /\ UNCHANGED <<tgvars, benchvars, nanvars, retvars, entvars, mzvars,
                 genvars>>

\* testReturnPath: if (result.error) return -1; return result.value
ReturnCheck ==
  /\ tcpc = "check"
  /\ returnRet' = IF "error" \in DOMAIN tcResult /\ tcResult.error # ""
                    THEN -1
                    ELSE tcResult.value
  /\ tcpc' = "done"
  /\ UNCHANGED <<tcN, tcThrown, tcCaught, throwRet, tcResult>>
  /\ UNCHANGED <<tgvars, benchvars, nanvars, retvars, entvars, mzvars,
                 genvars>>

InitTC == TgIdle /\ BenchIdle /\ NanIdle /\ RetIdle /\ EntIdle /\ ExtIdle

NextTC ==
  \/ TcPick
  \/ ThrowTry
  \/ ThrowCatch
  \/ ReturnCall
  \/ ReturnCheck

SpecTC == InitTC /\ [][NextTC]_vars

\* C12: the 'always throws' path always throws. For every n >= 0,
\* throwOnError(-(n % 100)) throws inside testThrowPath, the exception is
\* caught and testThrowPath returns -1; testReturnPath takes the error branch
\* and returns -1 as well.
C12_AlwaysThrows ==
  /\ tcpc \in {"returnPath", "check", "done"} =>
       tcThrown /\ tcCaught /\ throwRet = -1
  /\ tcpc = "done" => "error" \in DOMAIN tcResult /\ returnRet = -1

\* ------------------------------------------------ the generator pipeline

\* range(n) is called with n in 0..MaxRange (20 in the source)
MaxRange == 8

\* x => x * 2, the function given to map
MapFn(v) == v * 2

\* x => x % 3 === 0, the function given to filter
FilterFn(v) == v % 3 = 0

\* the consumer's for-of begins: the three generator objects are created,
\* none of them has run
GenStart ==
  /\ gActive = "idle"
  /\ \E n \in 0..MaxRange : gN' = n
  /\ gActive' = "consumer" /\ gSignal' = "call"
  /\ gSum' = 0
  /\ UNCHANGED <<rangeI, rangeSt, mapV, filterV, curV, nProduced, nMapped,
                 nTested, nDropped, nConsumed>>
  /\ UNCHANGED <<tgvars, benchvars, nanvars, retvars, entvars, mzvars,
                 tcvars>>

\* for (const v of filter(...)): next() is called on filter
ConsumerNext ==
  /\ gActive = "consumer" /\ gSignal = "call"
  /\ gActive' = "filter"
  /\ UNCHANGED <<gN, gSignal, rangeI, rangeSt, mapV, filterV, curV, gSum,
                 nProduced, nMapped, nTested, nDropped, nConsumed>>
  /\ UNCHANGED <<tgvars, benchvars, nanvars, retvars, entvars, mzvars,
                 tcvars>>

\* filter: for (const v of gen): next() is called on map
FilterPull ==
  /\ gActive = "filter" /\ gSignal = "call"
  /\ gActive' = "map"
  /\ UNCHANGED <<gN, gSignal, rangeI, rangeSt, mapV, filterV, curV, gSum,
                 nProduced, nMapped, nTested, nDropped, nConsumed>>
  /\ UNCHANGED <<tgvars, benchvars, nanvars, retvars, entvars, mzvars,
                 tcvars>>

\* map: for (const v of gen): next() is called on range
MapPull ==
  /\ gActive = "map" /\ gSignal = "call"
  /\ gActive' = "range"
  /\ UNCHANGED <<gN, gSignal, rangeI, rangeSt, mapV, filterV, curV, gSum,
                 nProduced, nMapped, nTested, nDropped, nConsumed>>
  /\ UNCHANGED <<tgvars, benchvars, nanvars, retvars, entvars, mzvars,
                 tcvars>>

\* i of range when it is resumed: let i = 0 at the start, i++ after a yield
RangeResume == IF rangeSt = "start" THEN 0 ELSE rangeI + 1

\* range: i < n, yield i
RangeYield ==
  /\ gActive = "range" /\ gSignal = "call"
  /\ RangeResume < gN
  /\ rangeI' = RangeResume
  /\ rangeSt' = "yielded"
  /\ mapV' = rangeI'
  /\ nProduced' = nProduced + 1
  /\ gActive' = "map" /\ gSignal' = "value"
  /\ UNCHANGED <<gN, filterV, curV, gSum, nMapped, nTested, nDropped,
                 nConsumed>>
  /\ UNCHANGED <<tgvars, benchvars, nanvars, retvars, entvars, mzvars,
                 tcvars>>

\* range: the loop ends, range is done
RangeEnd ==
  /\ gActive = "range" /\ gSignal = "call"
  /\ ~(RangeResume < gN)
  /\ rangeI' = RangeResume
  /\ rangeSt' = "done"
  /\ gActive' = "map" /\ gSignal' = "done"
  /\ UNCHANGED <<gN, mapV, filterV, curV, gSum, nProduced, nMapped, nTested,
                 nDropped, nConsumed>>
  /\ UNCHANGED <<tgvars, benchvars, nanvars, retvars, entvars, mzvars,
                 tcvars>>

\* map goes on to its next value before handing this one on, as
\* Array.prototype.map does
MapKeepsPulling == "map"

\* yield fn(v) suspends map and resumes the caller of its next(): filter
MapYieldsTo == "filter"

\* map: yield fn(v)
MapApply ==
  /\ gActive = "map" /\ gSignal = "value"
  /\ filterV' = MapFn(mapV)
  /\ nMapped' = nMapped + 1
  /\ gActive' = MapYieldsTo
  /\ gSignal' = IF gActive' = "map" THEN "call" ELSE "value"
  /\ UNCHANGED <<gN, rangeI, rangeSt, mapV, curV, gSum, nProduced, nTested,
                 nDropped, nConsumed>>
  /\ UNCHANGED <<tgvars, benchvars, nanvars, retvars, entvars, mzvars,
                 tcvars>>

\* map: its for-of ends, map is done
MapEnd ==
  /\ gActive = "map" /\ gSignal = "done"
  /\ gActive' = "filter"
  /\ UNCHANGED <<gN, gSignal, rangeI, rangeSt, mapV, filterV, curV, gSum,
                 nProduced, nMapped, nTested, nDropped, nConsumed>>
  /\ UNCHANGED <<tgvars, benchvars, nanvars, retvars, entvars, mzvars,
                 tcvars>>

\* filter: if (fn(v)) yield v; otherwise on to the next value
FilterTest ==
  /\ gActive = "filter" /\ gSignal = "value"
  /\ nTested' = nTested + 1
  /\ IF FilterFn(filterV)
       THEN /\ curV' = filterV
            /\ gActive' = "consumer" /\ gSignal' = "value"
            /\ UNCHANGED nDropped
       ELSE /\ nDropped' = nDropped + 1
            /\ gActive' = "filter" /\ gSignal' = "call"
            /\ UNCHANGED curV
  /\ UNCHANGED <<gN, rangeI, rangeSt, mapV, filterV, gSum, nProduced,
                 nMapped, nConsumed>>
  /\ UNCHANGED <<tgvars, benchvars, nanvars, retvars, entvars, mzvars,
                 tcvars>>

\* filter: its for-of ends, filter is done
FilterEnd ==
  /\ gActive = "filter" /\ gSignal = "done"
  /\ gActive' = "consumer"
  /\ UNCHANGED <<gN, gSignal, rangeI, rangeSt, mapV, filterV, curV, gSum,
                 nProduced, nMapped, nTested, nDropped, nConsumed>>
  /\ UNCHANGED <<tgvars, benchvars, nanvars, retvars, entvars, mzvars,
                 tcvars>>

\* the consumer: sum += v
ConsumerAdd ==
  /\ gActive = "consumer" /\ gSignal = "value"
  /\ gSum' = gSum + curV
  /\ nConsumed' = nConsumed + 1
  /\ gSignal' = "call"
  /\ UNCHANGED <<gN, gActive, rangeI, rangeSt, mapV, filterV, curV,
                 nProduced, nMapped, nTested, nDropped>>
  /\ UNCHANGED <<tgvars, benchvars, nanvars, retvars, entvars, mzvars,
                 tcvars>>

\* the consumer: the loop ends, return sum
ConsumerEnd ==
  /\ gActive = "consumer" /\ gSignal = "done"
  /\ gActive' = "finished"
  /\ UNCHANGED <<gN, gSignal, rangeI, rangeSt, mapV, filterV, curV, gSum,
                 nProduced, nMapped, nTested, nDropped, nConsumed>>
  /\ UNCHANGED <<tgvars, benchvars, nanvars, retvars, entvars, mzvars,
                 tcvars>>

InitGen == TgIdle /\ BenchIdle /\ NanIdle /\ RetIdle /\ EntIdle /\ ExtIdle

NextGen ==
  \/ GenStart
  \/ ConsumerNext
  \/ FilterPull
  \/ MapPull
  \/ RangeYield
  \/ RangeEnd
  \/ MapApply
  \/ MapEnd
  \/ FilterTest
  \/ FilterEnd
  \/ ConsumerAdd
  \/ ConsumerEnd

SpecGen == InitGen /\ [][NextGen]_vars

\* the values the pipeline holds: yielded by range, neither dropped by
\* filter nor added to sum yet
InFlight == nProduced - nDropped - nConsumed

RECURSIVE ForLoopSum(_)
\* the sum of the imperative loop over 0..n-1 (for-loop imperative)
ForLoopSum(n) ==
  IF n = 0 THEN 0
  ELSE ForLoopSum(n - 1)
         + (IF FilterFn(MapFn(n - 1)) THEN MapFn(n - 1) ELSE 0)

\* C13: generator pipelines are lazy. Each value flows through the whole
\* chain before the next one is produced: whenever range is resumed, map's
\* function and filter's function have been applied to every value range
\* has yielded so far and none of them is still held; f is applied to value i
\* before p is, and the pipeline never holds more than one value.
C13_Lazy ==
  /\ InFlight \in {0, 1}
  /\ nProduced - nMapped \in {0, 1}
  /\ nMapped - nTested \in {0, 1}
  /\ nProduced - nTested \in {0, 1}
  /\ gActive = "range" =>
       nMapped = nProduced /\ nTested = nProduced /\ InFlight = 0
  /\ (gActive = "map" /\ gSignal = "value") =>
       mapV = nProduced - 1 /\ nMapped = nProduced - 1
  /\ (gActive = "filter" /\ gSignal = "value") =>
       filterV = MapFn(nProduced - 1) /\ nTested = nProduced - 1
  /\ gActive = "finished" =>
       nProduced = gN /\ nTested = gN /\ gSum = ForLoopSum(gN)

\* a run over four values or more has finished: filter dropped some values
\* and the consumer added others
C13_Witness ==
  /\ gActive = "finished" /\ gN >= 4
  /\ nDropped >= 2 /\ nConsumed >= 2

\* the recorded times below v, and above v
CountBelow(ts, v) == Cardinality({k \in 1..Len(ts) : TimeLess(ts[k], v)})
CountAbove(ts, v) == Cardinality({k \in 1..Len(ts) : TimeLess(v, ts[k])})

\* v is the lower (upper) of the middle values of ts: one and the same value
\* when their number is odd
IsLowerMiddle(ts, v) ==
  LET half == (Len(ts) + 1) \div 2
  IN CountBelow(ts, v) <= half - 1 /\ CountAbove(ts, v) <= Len(ts) - half

IsUpperMiddle(ts, v) ==
  LET half == Len(ts) \div 2
  IN CountBelow(ts, v) <= half /\ CountAbove(ts, v) <= Len(ts) - half - 1

\* m is the median of ts: the middle value, or the mean of the two middle
\* values (all times are fractions over the same denominator)
IsMedian(m, ts) ==
  \E a \in 1..Len(ts), b \in 1..Len(ts) :
    /\ IsLowerMiddle(ts, ts[a]) /\ IsUpperMiddle(ts, ts[b])
    /\ m[2] = ts[a][2] /\ m[2] = ts[b][2]
    /\ 2 * m[1] = ts[a][1] + ts[b][1]

\* C14: bench of the Map-vs-Object experiment reports the median of its
\* measured run times: for every iterations >= 1 the value returned is the
\* median of the iterations recorded times.
C14_ReportsMedian ==
  (helper = "mapobj" /\ bpc = "done") =>
    /\ Len(times) = iterations
    /\ IsMedian(median, times)

\* C15: if an awaited Telegram API call rejects, the experiment stops at
\* that point. From the rejection on no API request is issued (no result
\* message in particular: one is on record only if the rejected call was its
\* sending), and the process exits with status 1.
C15_RejectStops ==
  /\ [](/\ rejected =>
             /\ pc = "exited" /\ exitStatus = "exit1"
             /\ inflight = <<>> /\ resp = NoResp
        /\ (resp.status = "reject" /\ pc # "await_result") =>
             SentOf("result") = <<>>
        /\ resp.status = "reject" => inflight = <<>> /\ Awaiting)
  /\ [][(rejected \/ resp.status = "reject") =>
          /\ sent' = sent /\ inflight' = inflight /\ polls' = polls
          /\ \/ rejected' /\ pc' = "exited" /\ exitStatus' = "exit1"
             \/ ~rejected /\ pc' = pc /\ resp' = resp]_vars

\* a poll was rejected after the commitment was delivered, and the run ended
C15_Witness ==
  /\ rejected /\ pc = "exited" /\ exitStatus = "exit1"
  /\ commitDelivered /\ polls >= 1 /\ SentOf("result") = <<>>

\* the for loop takes the next update of the batch
ProcessesUpdate == pc = "for_head" /\ i < Len(updates.result) /\ i' = i + 1

\* C16: choice recognition in the poll loop. An update is considered only
\* if its message has a text and comes from CHAT_ID; its text, lower-cased
\* and trimmed, sets choice to 'wave' for wave / volna and to 'particle' for
\* particle / chastitsa; any other text of that chat sends exactly one
\* re-prompt and leaves choice as it is; a message of another chat, or one
\* without text, changes nothing and sends nothing. No other step changes
\* choice or sends a re-prompt.
C16_ChoiceRecognition ==
  [][IF ProcessesUpdate
       THEN LET msg == updates.result[i + 1].message
                text == LowerTrim(msg.text)
            IN IF msg.text = "" \/ String(msg.chat.id) # CHAT_ID
                 THEN choice' = choice /\ sent' = sent
               ELSE IF text \in {"wave", "volna"}
                 THEN choice' = "wave" /\ sent' = sent
               ELSE IF text \in {"particle", "chastitsa"}
                 THEN choice' = "particle" /\ sent' = sent
               ELSE choice' = choice /\ sent' = Append(sent, PromptMsg)
       ELSE /\ choice' = choice
            /\ SentOf("prompt")' = SentOf("prompt")]_vars

\* the chat wrote something else first, was prompted once, and then chose
C16_Witness ==
  /\ choice = "particle"
  /\ Len(SentOf("prompt")) = 1
  /\ pc = "while_head"

\* C17: the recorded choice is stable. Once a valid choice message has been
\* processed no later message changes the choice: the choice in force, and
\* the one applied to the committed state, is that of the first valid choice
\* message processed (here: one the chat wrote after the commitment was
\* delivered).
C17_ChoiceStable ==
  /\ choice # Null => firstValid # NoUpdate
  /\ (choice # Null /\ firstValid.era = "post") =>
       choice = ChoiceOf(LowerTrim(firstValid.message.text))

\* a valid choice message of CHAT_ID, written after the commitment was
\* delivered, is waiting at the server
ValidChoiceWaiting ==
  \E k \in 1..Len(queue) :
    /\ queue[k].era = "post"
    /\ Considered(queue[k].message)
    /\ ChoiceOf(LowerTrim(queue[k].message.text)) # Null

\* C18: a valid choice message that the chat sends after the commitment was
\* delivered is eventually accepted as the choice, while polls remain and the
\* API keeps answering ok (no response with ok = false, no rejection): it is
\* never silently skipped.
C18_ChoiceAccepted ==
  ValidChoiceWaiting ~> (choice # Null \/ fails > 0 \/ rejected)

====
